---- MODULE Spec2Model ----
(***************************************************************************)
(* Model of the board-support dispatch layer custom_motion_sensors.c:     *)
(* the static dispatch tables (MotionCompObj, MotionDrv, MotionFuncDrv),  *)
(* the Sensor Context (MotionCtx), the probe routine LSM6DSOX_0_Probe and *)
(* the public CUSTOM_MOTION_SENSOR_* entry points.                        *)
(*                                                                         *)
(* The vendor driver is an external collaborator: its capability record   *)
(* (cap) is fixed for a run, and the status of each driver call is an     *)
(* input.  An API call is single-threaded and runs to completion, so one  *)
(* action is one API call.  `last` is the observable record of the most   *)
(* recent call: its arguments, its return value, the driver functions it  *)
(* invoked (in order) and the table entries it dereferenced.              *)
(***************************************************************************)
EXTENDS Integers, Sequences, FiniteSets

VARIABLES cap, MotionCompObj, MotionDrv, MotionFuncDrv, MotionCtx, last, halted

tables == <<MotionCompObj, MotionDrv, MotionFuncDrv, MotionCtx>>
vars == <<cap, MotionCompObj, MotionDrv, MotionFuncDrv, MotionCtx, last, halted>>

(* ---------------- bounds of the model ---------------- *)
\* Instance arguments range over 0..MaxInstance
MaxInstance == 1
\* the Function argument of a function-scoped call ranges over 0..MaxFunction
MaxFunction == 5
\* the Functions mask given to Init ranges over 0..MaxFunctions
MaxFunctions == 7
\* the driver call whose status is a failure is number 0..MaxDriverCalls of
\* the API call (0: no driver call fails)
MaxDriverCalls == 8

(* ---------------- program constants ---------------- *)
\* The Function flags: the mask built at line 578 puts Gyro at bit 0, Acc at
\* bit 1 and Magneto at bit 2, and FunctionIndex (line 27) is sized for a
\* largest flag of 4.
MOTION_GYRO == 1
MOTION_ACCELERO == 2
MOTION_MAGNETO == 4
\* the second dimension of MotionFuncDrv: the slots FunctionIndex maps to
CUSTOM_MOTION_FUNCTIONS_NBR == 3
\* custom_mems_conf.h: one component is configured, and each configured
\* component is one instance
USE_CUSTOM_MOTION_SENSOR_LSM6DSOX_0 == 1
CUSTOM_MOTION_INSTANCES_NBR == USE_CUSTOM_MOTION_SENSOR_LSM6DSOX_0
\* the instance number of the only component
CUSTOM_LSM6DSOX_0 == 0

BSP_ERROR_NONE == "NONE"
BSP_ERROR_NO_INIT == "NO_INIT"
BSP_ERROR_WRONG_PARAM == "WRONG_PARAM"
BSP_ERROR_UNKNOWN_COMPONENT == "UNKNOWN_COMPONENT"
BSP_ERROR_COMPONENT_FAILURE == "COMPONENT_FAILURE"
BSPCodes == {BSP_ERROR_NONE, BSP_ERROR_NO_INIT, BSP_ERROR_WRONG_PARAM,
             BSP_ERROR_UNKNOWN_COMPONENT, BSP_ERROR_COMPONENT_FAILURE}

\* pointer values held by the tables
NULL == "NULL"
WILD == "WILD"
lsm6dsox_obj_0 == "lsm6dsox_obj_0"
LSM6DSOX_COMMON_Driver == "LSM6DSOX_COMMON_Driver"
LSM6DSOX_GYRO_Driver == "LSM6DSOX_GYRO_Driver"
LSM6DSOX_ACC_Driver == "LSM6DSOX_ACC_Driver"
\* the functions of the driver component called directly by the probe
LSM6DSOX == "LSM6DSOX"

Instances == 0 .. (CUSTOM_MOTION_INSTANCES_NBR - 1)
Slots == 0 .. (CUSTOM_MOTION_FUNCTIONS_NBR - 1)

\* Calling through a null or wild pointer, or indexing a static array outside
\* its bounds, is undefined: the build may fault (the program stops), or the
\* call may return with a status nothing determines (INDETERMINATE stands for
\* that arbitrary int32_t value).
FAULT == "FAULT"
INDETERMINATE == "INDETERMINATE"
UBOutcomes == {FAULT, INDETERMINATE}

(* ---------------- helpers ---------------- *)
\* the C operator & on uint32_t values
RECURSIVE BitAnd(_, _)
BitAnd(a, b) ==
  IF a = 0 \/ b = 0 THEN 0
  ELSE (IF a % 2 = 1 /\ b % 2 = 1 THEN 1 ELSE 0) + 2 * BitAnd(a \div 2, b \div 2)

\* static uint32_t FunctionIndex[5] = {0, 0, 1, 1, 2}
FunctionIndexTable == <<0, 0, 1, 1, 2>>
FunctionIndexInBounds(function) == function + 1 \in DOMAIN FunctionIndexTable
FunctionIndex(function) == FunctionIndexTable[function + 1]

\* a read of a static table at index i (WILD outside the array)
At(tbl, i) == IF i \in DOMAIN tbl THEN tbl[i] ELSE WILD

\* the status of driver call number n of an API call in which call number
\* `fail` reports an error
DrvOK(n, fail) == n # fail

Call(drv, fn, ok) == [drv |-> drv, fn |-> fn, ok |-> ok]
Deref(table, slot, ptr) == [table |-> table, slot |-> slot, ptr |-> ptr]

\* ((uint32_t)cap.Gyro) | ((uint32_t)cap.Acc << 1) | ((uint32_t)cap.Magneto << 2)
CapMask(c) == c.Gyro + 2 * c.Acc + 4 * c.Magneto

(* ---------------- LSM6DSOX_0_Probe ---------------- *)
\* the result of a probe that stops before touching the tables
ProbeUntouched(ret, calls) ==
  [ret |-> ret, idPassed |-> FALSE, calls |-> calls,
   ctx |-> MotionCtx, obj |-> MotionCompObj, drv |-> MotionDrv, fdrv |-> MotionFuncDrv]

\* lines 584-597 (GYRO) and 598-611 (ACCELERO): bind the per-function driver
\* and call the common driver's Init
ProbeBind_InitOnce(s, Functions, function, capFlag, driver, fail) ==
  IF s.ret = BSP_ERROR_NONE /\ BitAnd(Functions, function) = function /\ capFlag = 1
  THEN IF \E k \in 1 .. Len(s.calls) : s.calls[k].fn = "Init"
       THEN [s EXCEPT !.fdrv[CUSTOM_LSM6DSOX_0][FunctionIndex(function)] = driver]
       ELSE LET ok == DrvOK(Len(s.calls) + 1, fail) IN
            [s EXCEPT !.fdrv[CUSTOM_LSM6DSOX_0][FunctionIndex(function)] = driver,
                      !.calls = Append(s.calls, Call(s.drv[CUSTOM_LSM6DSOX_0], "Init", ok)),
                      !.ret = IF ok THEN BSP_ERROR_NONE ELSE BSP_ERROR_COMPONENT_FAILURE]
  ELSE s

ProbeBind(s, Functions, function, capFlag, driver, fail) ==
  IF s.ret = BSP_ERROR_NONE /\ BitAnd(Functions, function) = function /\ capFlag = 1
  THEN LET ok == DrvOK(Len(s.calls) + 1, fail) IN
       [s EXCEPT !.fdrv[CUSTOM_LSM6DSOX_0][FunctionIndex(function)] = driver,
                 !.calls = Append(s.calls, Call(s.drv[CUSTOM_LSM6DSOX_0], "Init", ok)),
                 !.ret = IF ok THEN BSP_ERROR_NONE ELSE BSP_ERROR_COMPONENT_FAILURE]
  ELSE s

\* lines 612-616: a request for MAGNETO is an error
ProbeMagneto_Unwind(s, Functions) ==
  IF s.ret = BSP_ERROR_NONE /\ BitAnd(Functions, MOTION_MAGNETO) = MOTION_MAGNETO
  THEN [s EXCEPT !.ret = BSP_ERROR_COMPONENT_FAILURE,
                 !.ctx = MotionCtx, !.drv = MotionDrv, !.obj = MotionCompObj,
                 !.fdrv = MotionFuncDrv]
  ELSE s

ProbeMagneto(s, Functions) ==
  IF s.ret = BSP_ERROR_NONE /\ BitAnd(Functions, MOTION_MAGNETO) = MOTION_MAGNETO
  THEN [s EXCEPT !.ret = BSP_ERROR_COMPONENT_FAILURE]
  ELSE s

\* lines 577-582: the capability query and the unconditional bindings
ProbeIdentified(calls, fail) ==
  [ret |-> BSP_ERROR_NONE, idPassed |-> TRUE,
   calls |-> Append(calls, Call(LSM6DSOX, "GetCapabilities", DrvOK(Len(calls) + 1, fail))),
   ctx |-> [MotionCtx EXCEPT ![CUSTOM_LSM6DSOX_0] = [Functions |-> CapMask(cap)]],
   obj |-> [MotionCompObj EXCEPT ![CUSTOM_LSM6DSOX_0] = lsm6dsox_obj_0],
   drv |-> [MotionDrv EXCEPT ![CUSTOM_LSM6DSOX_0] = LSM6DSOX_COMMON_Driver],
   fdrv |-> MotionFuncDrv]

LSM6DSOX_0_Probe(Functions, idMatch, fail) ==
  LET regOK == DrvOK(1, fail)
      ridOK == DrvOK(2, fail)
      c1 == <<Call(LSM6DSOX, "RegisterBusIO", regOK)>>
      c2 == Append(c1, Call(LSM6DSOX, "ReadID", ridOK))
  IN IF ~regOK THEN ProbeUntouched(BSP_ERROR_UNKNOWN_COMPONENT, c1)
     ELSE IF ~ridOK THEN ProbeUntouched(BSP_ERROR_UNKNOWN_COMPONENT, c2)
     ELSE IF ~idMatch THEN ProbeUntouched(BSP_ERROR_UNKNOWN_COMPONENT, c2)
     ELSE LET s0 == ProbeIdentified(c2, fail)
              s1 == ProbeBind(s0, Functions, MOTION_GYRO, cap.Gyro, LSM6DSOX_GYRO_Driver, fail)
              s2 == ProbeBind(s1, Functions, MOTION_ACCELERO, cap.Acc, LSM6DSOX_ACC_Driver, fail)
          IN ProbeMagneto(s2, Functions)

(* ---------------- the record of an API call ---------------- *)
NoProbe == "-"
Result(op, Instance, Function, ret, calls, derefs, probeRet, idMatch, idPassed, compFns) ==
  [op |-> op, Instance |-> Instance, Function |-> Function, ret |-> ret,
   calls |-> calls, derefs |-> derefs, probeRet |-> probeRet,
   idMatch |-> idMatch, idPassed |-> idPassed, component_functions |-> compFns]

\* a call that ran no probe
Plain(op, Instance, Function, ret, calls, derefs) ==
  Result(op, Instance, Function, ret, calls, derefs, NoProbe, TRUE, FALSE, 0)

\* the call returns r.ret, unless it ran into undefined behaviour
Finish(r, ub) ==
  IF ub
  THEN \E out \in UBOutcomes : /\ last' = [r EXCEPT !.ret = out]
                               /\ halted' = (out = FAULT)
  ELSE /\ last' = r
       /\ halted' = FALSE

(* ---------------- CUSTOM_MOTION_SENSOR_Init ---------------- *)
\* switch (Instance): the only case label is CUSTOM_LSM6DSOX_0
InitInstanceKnown(Instance) == Instance = CUSTOM_LSM6DSOX_0

\* line 59: what Init returns when the probe did not return BSP_ERROR_NONE
ProbeFailureStatus_Passthrough(probeRet) == probeRet

ProbeFailureStatus(probeRet) == BSP_ERROR_NO_INIT

\* lines 65-76
ComponentFunctions(c) ==
  (IF c.Acc = 1 THEN MOTION_ACCELERO ELSE 0) + (IF c.Gyro = 1 THEN MOTION_GYRO ELSE 0)
  + (IF c.Magneto = 1 THEN MOTION_MAGNETO ELSE 0)

\* line 91: the function is requested and the component has it
EnableWanted(Functions, component_functions, function) ==
  /\ BitAnd(Functions, function) = function
  /\ BitAnd(component_functions, function) = function

\* lines 93-96: one Enable through the per-function table; a is the call so
\* far, [ret, calls, derefs, ub, stop, component_functions]
InitEnableStep_NoReturn(a, idx, ptr, ok) ==
  LET d == Append(a.derefs, Deref("MotionFuncDrv", idx, ptr)) IN
  IF ptr \in {NULL, WILD}
  THEN [a EXCEPT !.derefs = d, !.ub = TRUE, !.stop = TRUE]
  ELSE [a EXCEPT !.derefs = d, !.calls = Append(a.calls, Call(ptr, "Enable", ok)),
                 !.ret = IF ok THEN a.ret ELSE BSP_ERROR_COMPONENT_FAILURE]

InitEnableStep(a, idx, ptr, ok) ==
  LET d == Append(a.derefs, Deref("MotionFuncDrv", idx, ptr)) IN
  IF ptr \in {NULL, WILD}
  THEN [a EXCEPT !.derefs = d, !.ub = TRUE, !.stop = TRUE]
  ELSE IF ~ok
  THEN [a EXCEPT !.derefs = d, !.calls = Append(a.calls, Call(ptr, "Enable", ok)),
                 !.ret = BSP_ERROR_COMPONENT_FAILURE, !.stop = TRUE]
  ELSE [a EXCEPT !.derefs = d, !.calls = Append(a.calls, Call(ptr, "Enable", ok))]

\* lines 89-99: the enable loop
RECURSIVE InitEnableLoop(_, _, _, _, _, _, _, _)
InitEnableLoop(i, function, Instance, Functions, component_functions, fdrv, fail, a) ==
  IF i >= CUSTOM_MOTION_FUNCTIONS_NBR \/ a.stop THEN a
  ELSE InitEnableLoop(i + 1, function * 2, Instance, Functions, component_functions, fdrv, fail,
         IF EnableWanted(Functions, component_functions, function)
         THEN InitEnableStep(a, FunctionIndex(function),
                             At(At(fdrv, Instance), FunctionIndex(function)),
                             DrvOK(Len(a.calls) + 1, fail))
         ELSE a)

\* lines 61-101, after a probe p that returned BSP_ERROR_NONE
InitAfterProbe(Instance, Functions, p, fail) ==
  LET ptr == At(p.drv, Instance)
      d == <<Deref("MotionDrv", Instance, ptr)>>
      ok == DrvOK(Len(p.calls) + 1, fail)
      c == Append(p.calls, Call(ptr, "GetCapabilities", ok))
  IN IF ptr \in {NULL, WILD}
     THEN [ret |-> BSP_ERROR_NONE, calls |-> p.calls, derefs |-> d, ub |-> TRUE,
           stop |-> TRUE, component_functions |-> 0]
     ELSE IF ~ok
     THEN [ret |-> BSP_ERROR_UNKNOWN_COMPONENT, calls |-> c, derefs |-> d, ub |-> FALSE,
           stop |-> TRUE, component_functions |-> 0]
     ELSE InitEnableLoop(0, MOTION_GYRO, Instance, Functions, ComponentFunctions(cap),
                         p.fdrv, fail,
                         [ret |-> BSP_ERROR_NONE, calls |-> c, derefs |-> d, ub |-> FALSE,
                          stop |-> FALSE, component_functions |-> ComponentFunctions(cap)])

CUSTOM_MOTION_SENSOR_Init(Instance, Functions, idMatch, fail) ==
  /\ ~halted
  /\ UNCHANGED cap
  /\ IF ~InitInstanceKnown(Instance)
     THEN /\ UNCHANGED tables
          /\ Finish(Plain("Init", Instance, Functions, BSP_ERROR_WRONG_PARAM, <<>>, <<>>), FALSE)
     ELSE LET p == LSM6DSOX_0_Probe(Functions, idMatch, fail) IN
          /\ MotionCtx' = p.ctx
          /\ MotionCompObj' = p.obj
          /\ MotionDrv' = p.drv
          /\ MotionFuncDrv' = p.fdrv
          /\ IF p.ret # BSP_ERROR_NONE
             THEN Finish(Result("Init", Instance, Functions, ProbeFailureStatus(p.ret),
                                p.calls, <<>>, p.ret, idMatch, p.idPassed, 0), FALSE)
             ELSE LET r == InitAfterProbe(Instance, Functions, p, fail) IN
                  Finish(Result("Init", Instance, Functions, r.ret, r.calls, r.derefs,
                                p.ret, idMatch, p.idPassed, r.component_functions), r.ub)

(* ---------------- DeInit, GetCapabilities, ReadID ---------------- *)
\* if (Instance >= CUSTOM_MOTION_INSTANCES_NBR) ret = BSP_ERROR_WRONG_PARAM
InstanceValid_OffByOne(Instance) == ~(Instance > CUSTOM_MOTION_INSTANCES_NBR)

InstanceValid(Instance) == ~(Instance >= CUSTOM_MOTION_INSTANCES_NBR)

CommonCall(op, Instance, ok, failStatus) ==
  /\ UNCHANGED <<cap, tables>>
  /\ IF ~InstanceValid(Instance)
     THEN Finish(Plain(op, Instance, 0, BSP_ERROR_WRONG_PARAM, <<>>, <<>>), FALSE)
     ELSE LET ptr == At(MotionDrv, Instance)
              d == <<Deref("MotionDrv", Instance, ptr)>>
          IN IF ptr \in {NULL, WILD}
             THEN Finish(Plain(op, Instance, 0, BSP_ERROR_NONE, <<>>, d), TRUE)
             ELSE Finish(Plain(op, Instance, 0,
                               IF ok THEN BSP_ERROR_NONE ELSE failStatus,
                               <<Call(ptr, op, ok)>>, d), FALSE)

CUSTOM_MOTION_SENSOR_DeInit(Instance, ok) ==
  /\ ~halted
  /\ CommonCall("DeInit", Instance, ok, BSP_ERROR_COMPONENT_FAILURE)

CUSTOM_MOTION_SENSOR_GetCapabilities(Instance, ok) ==
  /\ ~halted
  /\ CommonCall("GetCapabilities", Instance, ok, BSP_ERROR_UNKNOWN_COMPONENT)

CUSTOM_MOTION_SENSOR_ReadID(Instance, ok) ==
  /\ ~halted
  /\ CommonCall("ReadID", Instance, ok, BSP_ERROR_UNKNOWN_COMPONENT)

(* ---------------- the function-scoped calls ---------------- *)
\* if ((MotionCtx[Instance].Functions & Function) == Function)
FunctionAllowed_AnyBit(mask, Function) == BitAnd(mask, Function) # 0

FunctionAllowed(mask, Function) == BitAnd(mask, Function) = Function

FuncCall(op, Instance, Function, ok) ==
  /\ UNCHANGED <<cap, tables>>
  /\ IF ~InstanceValid(Instance)
     THEN Finish(Plain(op, Instance, Function, BSP_ERROR_WRONG_PARAM, <<>>, <<>>), FALSE)
     ELSE IF Instance \notin DOMAIN MotionCtx
     THEN Finish(Plain(op, Instance, Function, BSP_ERROR_NONE, <<>>,
                       <<Deref("MotionCtx", Instance, WILD)>>), TRUE)
     ELSE IF FunctionAllowed(MotionCtx[Instance].Functions, Function)
     THEN IF ~FunctionIndexInBounds(Function)
          THEN Finish(Plain(op, Instance, Function, BSP_ERROR_NONE, <<>>,
                            <<Deref("MotionFuncDrv", -1, WILD)>>), TRUE)
          ELSE LET idx == FunctionIndex(Function)
                   ptr == At(At(MotionFuncDrv, Instance), idx)
                   d == <<Deref("MotionFuncDrv", idx, ptr)>>
               IN IF ptr \in {NULL, WILD}
                  THEN Finish(Plain(op, Instance, Function, BSP_ERROR_NONE, <<>>, d), TRUE)
                  ELSE Finish(Plain(op, Instance, Function,
                                    IF ok THEN BSP_ERROR_NONE ELSE BSP_ERROR_COMPONENT_FAILURE,
                                    <<Call(ptr, op, ok)>>, d), FALSE)
     ELSE Finish(Plain(op, Instance, Function, BSP_ERROR_WRONG_PARAM, <<>>, <<>>), FALSE)

CUSTOM_MOTION_SENSOR_Enable(Instance, Function, ok) ==
  /\ ~halted
  /\ FuncCall("Enable", Instance, Function, ok)

CUSTOM_MOTION_SENSOR_Disable(Instance, Function, ok) ==
  /\ ~halted
  /\ FuncCall("Disable", Instance, Function, ok)

CUSTOM_MOTION_SENSOR_GetAxes(Instance, Function, ok) ==
  /\ ~halted
  /\ FuncCall("GetAxes", Instance, Function, ok)

CUSTOM_MOTION_SENSOR_GetAxesRaw(Instance, Function, ok) ==
  /\ ~halted
  /\ FuncCall("GetAxesRaw", Instance, Function, ok)

CUSTOM_MOTION_SENSOR_GetSensitivity(Instance, Function, ok) ==
  /\ ~halted
  /\ FuncCall("GetSensitivity", Instance, Function, ok)

CUSTOM_MOTION_SENSOR_GetOutputDataRate(Instance, Function, ok) ==
  /\ ~halted
  /\ FuncCall("GetOutputDataRate", Instance, Function, ok)

CUSTOM_MOTION_SENSOR_GetFullScale(Instance, Function, ok) ==
  /\ ~halted
  /\ FuncCall("GetFullScale", Instance, Function, ok)

CUSTOM_MOTION_SENSOR_SetOutputDataRate(Instance, Function, ok) ==
  /\ ~halted
  /\ FuncCall("SetOutputDataRate", Instance, Function, ok)

CUSTOM_MOTION_SENSOR_SetFullScale(Instance, Function, ok) ==
  /\ ~halted
  /\ FuncCall("SetFullScale", Instance, Function, ok)


FuncOps == {"Enable", "Disable", "GetAxes", "GetAxesRaw", "GetSensitivity",
            "GetOutputDataRate", "GetFullScale", "SetOutputDataRate", "SetFullScale"}
CommonOps == {"DeInit", "GetCapabilities", "ReadID"}

(* ---------------- the state machine ---------------- *)
Capabilities == [Gyro : {0, 1}, Acc : {0, 1}, Magneto : {0, 1}]

\* static storage is zero-initialised: null pointers and an empty mask
Init ==
  /\ cap \in Capabilities
  /\ MotionCompObj = [i \in Instances |-> NULL]
  /\ MotionDrv = [i \in Instances |-> NULL]
  /\ MotionFuncDrv = [i \in Instances |-> [s \in Slots |-> NULL]]
  /\ MotionCtx = [i \in Instances |-> [Functions |-> 0]]
  /\ last = Plain("none", 0, 0, BSP_ERROR_NONE, <<>>, <<>>)
  /\ halted = FALSE

InstanceArgs == 0 .. MaxInstance
FunctionArgs == 0 .. MaxFunction
FunctionsArgs == 0 .. MaxFunctions

Next ==
  \/ \E I \in InstanceArgs, F \in FunctionsArgs, idMatch \in BOOLEAN, fail \in 0 .. MaxDriverCalls :
       CUSTOM_MOTION_SENSOR_Init(I, F, idMatch, fail)
  \/ \E I \in InstanceArgs, ok \in BOOLEAN : CUSTOM_MOTION_SENSOR_DeInit(I, ok)
  \/ \E I \in InstanceArgs, ok \in BOOLEAN : CUSTOM_MOTION_SENSOR_GetCapabilities(I, ok)
  \/ \E I \in InstanceArgs, ok \in BOOLEAN : CUSTOM_MOTION_SENSOR_ReadID(I, ok)
  \/ \E I \in InstanceArgs, F \in FunctionArgs, ok \in BOOLEAN : CUSTOM_MOTION_SENSOR_Enable(I, F, ok)
  \/ \E I \in InstanceArgs, F \in FunctionArgs, ok \in BOOLEAN : CUSTOM_MOTION_SENSOR_Disable(I, F, ok)
  \/ \E I \in InstanceArgs, F \in FunctionArgs, ok \in BOOLEAN : CUSTOM_MOTION_SENSOR_GetAxes(I, F, ok)
  \/ \E I \in InstanceArgs, F \in FunctionArgs, ok \in BOOLEAN : CUSTOM_MOTION_SENSOR_GetAxesRaw(I, F, ok)
  \/ \E I \in InstanceArgs, F \in FunctionArgs, ok \in BOOLEAN : CUSTOM_MOTION_SENSOR_GetSensitivity(I, F, ok)
  \/ \E I \in InstanceArgs, F \in FunctionArgs, ok \in BOOLEAN : CUSTOM_MOTION_SENSOR_GetOutputDataRate(I, F, ok)
  \/ \E I \in InstanceArgs, F \in FunctionArgs, ok \in BOOLEAN : CUSTOM_MOTION_SENSOR_GetFullScale(I, F, ok)
  \/ \E I \in InstanceArgs, F \in FunctionArgs, ok \in BOOLEAN : CUSTOM_MOTION_SENSOR_SetOutputDataRate(I, F, ok)
  \/ \E I \in InstanceArgs, F \in FunctionArgs, ok \in BOOLEAN : CUSTOM_MOTION_SENSOR_SetFullScale(I, F, ok)

Spec == Init /\ [][Next]_vars

(* ======================= the claims ======================= *)
Has(mask, function) == BitAnd(mask, function) = function
AllOK(calls) == \A k \in 1 .. Len(calls) : calls[k].ok
IsInit(c) == c.fn = "Init" /\ c.drv = LSM6DSOX_COMMON_Driver
IsEnable(c) == c.fn = "Enable"
IsCapQuery(c) == c.fn = "GetCapabilities" /\ c.drv = LSM6DSOX_COMMON_Driver
InitCalls(calls) == SelectSeq(calls, IsInit)
EnableCalls(calls) == SelectSeq(calls, IsEnable)
\* the Function flag a slot of the per-function table stands for
SlotFunction(slot) == CHOOSE f \in {MOTION_GYRO, MOTION_ACCELERO, MOTION_MAGNETO} :
                        FunctionIndex(f) = slot
\* the Function flag a per-function driver serves (0: none)
DriverFunction(drv) ==
  IF drv = LSM6DSOX_GYRO_Driver THEN MOTION_GYRO
  ELSE IF drv = LSM6DSOX_ACC_Driver THEN MOTION_ACCELERO ELSE 0
InitOn0(l) == l.op = "Init" /\ l.Instance = CUSTOM_LSM6DSOX_0
Mask0 == MotionCtx[CUSTOM_LSM6DSOX_0].Functions

(* ---- C1 ---- *)
\* Init(0, Functions) with MAGNETO requested, on a driver reporting no
\* magnetometer, the identity check passing and every driver call succeeding
C1_Case ==
  /\ InitOn0(last)
  /\ Has(last.Function, MOTION_MAGNETO)
  /\ cap.Magneto = 0
  /\ last.idMatch
  /\ AllOK(last.calls)

\* C1 as stated: in that case Init returns COMPONENT_FAILURE to the caller.
C1_Original == C1_Case => last.ret = BSP_ERROR_COMPONENT_FAILURE

\* C1 as amended: in that case the probe's status is COMPONENT_FAILURE and Init
\* returns NO_INIT to the caller, also when GYRO and/or ACCELERO were bound and
\* initialised in the same call.
C1_InitReturnsNoInit ==
  C1_Case => /\ last.probeRet = BSP_ERROR_COMPONENT_FAILURE
             /\ last.ret = BSP_ERROR_NO_INIT

C1_Witness ==
  /\ C1_Case
  /\ Has(last.Function, MOTION_GYRO) /\ Has(last.Function, MOTION_ACCELERO)
  /\ MotionFuncDrv[CUSTOM_LSM6DSOX_0][FunctionIndex(MOTION_GYRO)] = LSM6DSOX_GYRO_Driver
  /\ MotionFuncDrv[CUSTOM_LSM6DSOX_0][FunctionIndex(MOTION_ACCELERO)] = LSM6DSOX_ACC_Driver
  /\ Len(InitCalls(last.calls)) = 2

(* ---- C2 ---- *)
\* the probe of this Init call read an identity value different from the expected one
IdMismatch(l) ==
  /\ InitOn0(l)
  /\ l.probeRet = BSP_ERROR_UNKNOWN_COMPONENT
  /\ AllOK(l.calls)
  /\ ~l.idMatch

\* C2: after any sequence of calls, a probe whose identity read returns a wrong
\* id yields UNKNOWN_COMPONENT and leaves the Sensor Context mask of the
\* instance at zero, and the function-scoped call that follows on that
\* instance returns WRONG_PARAM whatever its Function argument.
C2_MismatchLeavesMaskZero ==
  /\ [](IdMismatch(last) => Mask0 = 0)
  /\ [][(IdMismatch(last) /\ last'.op \in FuncOps /\ last'.Instance = CUSTOM_LSM6DSOX_0)
          => last'.ret = BSP_ERROR_WRONG_PARAM]_vars

(* ---- C3 ---- *)
\* C3: every slot of the per-function table that the last call dereferenced
\* belongs to a Function whose bit is in the Sensor Context mask of the instance.
C3_DerefOnlyMaskedFunctions ==
  \A k \in 1 .. Len(last.derefs) :
    last.derefs[k].table = "MotionFuncDrv"
      => /\ last.derefs[k].slot \in Slots
         /\ last.Instance \in Instances
         /\ Has(MotionCtx[last.Instance].Functions, SlotFunction(last.derefs[k].slot))

(* ---- C4 ---- *)
C4_Case ==
  /\ last.op \in FuncOps
  /\ last.Instance \in Instances
  /\ BitAnd(MotionCtx[last.Instance].Functions, last.Function) # last.Function

\* C4: a function-scoped call on a valid instance whose Function is not a
\* subset of the Sensor Context mask returns WRONG_PARAM, invokes no driver
\* function and reads no table entry.
C4_NotSubsetIsWrongParam ==
  C4_Case => /\ last.ret = BSP_ERROR_WRONG_PARAM
             /\ last.calls = << >>
             /\ last.derefs = << >>

\* Function overlaps the mask without being a subset of it
C4_Witness ==
  /\ C4_Case
  /\ last.op = "SetOutputDataRate"
  /\ BitAnd(MotionCtx[last.Instance].Functions, last.Function) # 0

(* ---- C5 ---- *)
\* C5: a call with Instance >= CUSTOM_MOTION_INSTANCES_NBR returns WRONG_PARAM,
\* invokes no driver function, reads no table entry and leaves the dispatch
\* tables and the Sensor Context unchanged.
C5_BadInstanceIsWrongParam ==
  [][(last'.op # "none" /\ last'.Instance >= CUSTOM_MOTION_INSTANCES_NBR)
       => /\ last'.ret = BSP_ERROR_WRONG_PARAM
          /\ last'.calls = << >>
          /\ last'.derefs = << >>
          /\ ~halted'
          /\ UNCHANGED tables]_vars

\* Init on an instance >= N after the tables were populated
C5_Witness ==
  /\ last.op = "Init"
  /\ last.Instance >= CUSTOM_MOTION_INSTANCES_NBR
  /\ last.Function = MOTION_GYRO + MOTION_ACCELERO
  /\ Mask0 # 0
  /\ MotionDrv[CUSTOM_LSM6DSOX_0] = LSM6DSOX_COMMON_Driver

(* ---- C6 ---- *)
C6_Case ==
  /\ InitOn0(last)
  /\ last.Function = MOTION_GYRO + MOTION_ACCELERO
  /\ cap.Gyro = 1 /\ cap.Acc = 1
  /\ last.idMatch
  /\ AllOK(last.calls)

\* C6: Init(0, GYRO|ACCELERO) on a driver reporting both capabilities, identity
\* check passing and every driver call succeeding, calls the common driver's
\* Init exactly twice and returns NONE.
C6_InitTwiceAndNone ==
  C6_Case => /\ Len(InitCalls(last.calls)) = 2
             /\ last.ret = BSP_ERROR_NONE

C6_Witness ==
  /\ C6_Case
  /\ Len(EnableCalls(last.calls)) = 2
  /\ Mask0 >= MOTION_GYRO + MOTION_ACCELERO

(* ---- C7 ---- *)
\* the probe of this Init call failed after the identity check had passed
LateProbeFailure(l) ==
  /\ InitOn0(l)
  /\ l.idPassed
  /\ l.probeRet # BSP_ERROR_NONE

\* the bindings that the probe of the last Init call wrote before it failed
GyroWritten == Has(last.Function, MOTION_GYRO) /\ cap.Gyro = 1
AccWritten ==
  /\ Has(last.Function, MOTION_ACCELERO) /\ cap.Acc = 1
  /\ Len(InitCalls(last.calls)) = (IF GyroWritten THEN 2 ELSE 1)

NothingUnwound ==
  LateProbeFailure(last) =>
    /\ Mask0 = CapMask(cap)
    /\ MotionDrv[CUSTOM_LSM6DSOX_0] = LSM6DSOX_COMMON_Driver
    /\ MotionCompObj[CUSTOM_LSM6DSOX_0] = lsm6dsox_obj_0
    /\ GyroWritten =>
         MotionFuncDrv[CUSTOM_LSM6DSOX_0][FunctionIndex(MOTION_GYRO)] = LSM6DSOX_GYRO_Driver
    /\ AccWritten =>
         MotionFuncDrv[CUSTOM_LSM6DSOX_0][FunctionIndex(MOTION_ACCELERO)] = LSM6DSOX_ACC_Driver

\* no call takes a binding or a mask bit away
BindingsStay ==
  /\ \A s \in Slots : MotionFuncDrv[CUSTOM_LSM6DSOX_0][s] # NULL
                        => MotionFuncDrv'[CUSTOM_LSM6DSOX_0][s] = MotionFuncDrv[CUSTOM_LSM6DSOX_0][s]
  /\ MotionDrv[CUSTOM_LSM6DSOX_0] # NULL => MotionDrv'[CUSTOM_LSM6DSOX_0] = MotionDrv[CUSTOM_LSM6DSOX_0]
  /\ Mask0 # 0 => MotionCtx'[CUSTOM_LSM6DSOX_0].Functions = Mask0

\* a function-scoped call for a single function whose slot is bound is forwarded
BoundIsForwarded ==
  (/\ last.op \in FuncOps
   /\ last.Instance = CUSTOM_LSM6DSOX_0
   /\ last.Function \in {MOTION_GYRO, MOTION_ACCELERO}
   /\ MotionFuncDrv[CUSTOM_LSM6DSOX_0][FunctionIndex(last.Function)] # NULL)
  => /\ Len(last.calls) = 1
     /\ last.calls[1].drv = MotionFuncDrv[CUSTOM_LSM6DSOX_0][FunctionIndex(last.Function)]
     /\ last.calls[1].fn = last.op
     /\ last.ret = (IF last.calls[1].ok THEN BSP_ERROR_NONE ELSE BSP_ERROR_COMPONENT_FAILURE)

\* C7: when Init fails inside the probe after the identity check passed, the
\* mask, the common-driver binding and the per-function bindings written
\* before the failure are in place, no later call removes them, and a
\* function-scoped call for a bound function is forwarded to its driver.
C7_NothingUnwound ==
  /\ [](NothingUnwound /\ BoundIsForwarded)
  /\ [][BindingsStay]_vars

\* MAGNETO was requested with GYRO: the probe failed after binding GYRO
C7_Witness ==
  /\ LateProbeFailure(last)
  /\ last.ret = BSP_ERROR_NO_INIT
  /\ Has(last.Function, MOTION_MAGNETO)
  /\ AllOK(last.calls)
  /\ GyroWritten
  /\ MotionFuncDrv[CUSTOM_LSM6DSOX_0][FunctionIndex(MOTION_GYRO)] = LSM6DSOX_GYRO_Driver

(* ---- C8 ---- *)
\* the functions both requested and reported by the capability record, in
\* the order GYRO, ACCELERO, MAGNETO
RequestedAndReported ==
  SelectSeq(<<MOTION_GYRO, MOTION_ACCELERO, MOTION_MAGNETO>>,
            LAMBDA f : Has(last.Function, f) /\ Has(CapMask(cap), f))

\* the position of the last common-driver Init call is before the first Enable
InitsBeforeEnables ==
  \A i, j \in 1 .. Len(last.calls) :
    (IsInit(last.calls[i]) /\ IsEnable(last.calls[j])) => i < j

EnablesAsClaimed ==
  LET en == EnableCalls(last.calls)
      want == RequestedAndReported
  IN /\ InitsBeforeEnables
     /\ Len(en) <= Len(want)
     /\ \A k \in 1 .. Len(en) : DriverFunction(en[k].drv) = want[k]
     /\ \A k \in 1 .. Len(en) : ~en[k].ok =>
          /\ k = Len(en)
          /\ IsEnable(last.calls[Len(last.calls)])
          /\ last.ret = BSP_ERROR_COMPONENT_FAILURE
     /\ AllOK(en) => Len(en) = Len(want)

ProbeSucceeded == InitOn0(last) /\ last.probeRet = BSP_ERROR_NONE
CapQueryFailed == \E k \in 1 .. Len(last.calls) : IsCapQuery(last.calls[k]) /\ ~last.calls[k].ok

\* C8 as stated: within an Init call whose probe succeeds, the Enable calls
\* come after the probe's Init calls, are issued for exactly the functions
\* requested and reported, in the order GYRO, ACCELERO, MAGNETO, and a failing
\* Enable ends the call with COMPONENT_FAILURE.
C8_Original == ProbeSucceeded => EnablesAsClaimed

\* C8 as amended: the same, provided Init's own capability query (line 61)
\* succeeds; when it fails Init returns UNKNOWN_COMPONENT and enables nothing.
C8_EnableOrder ==
  /\ (ProbeSucceeded /\ ~CapQueryFailed) => EnablesAsClaimed
  /\ (ProbeSucceeded /\ CapQueryFailed) =>
        (last.ret = BSP_ERROR_UNKNOWN_COMPONENT /\ EnableCalls(last.calls) = << >>)

\* GYRO enabled, then the Enable of ACCELERO failed
C8_Witness ==
  /\ ProbeSucceeded
  /\ ~CapQueryFailed
  /\ Len(EnableCalls(last.calls)) = 2
  /\ ~EnableCalls(last.calls)[2].ok
  /\ last.ret = BSP_ERROR_COMPONENT_FAILURE

(* ---- C9 ---- *)
\* C9: no table entry that the last call dereferenced (the common-driver entry
\* or a per-function entry) held the unbound null value.
C9_NoNullDeref ==
  \A k \in 1 .. Len(last.derefs) : last.derefs[k].ptr # NULL

(* ---- C10 ---- *)
\* C10: a function-scoped call that was forwarded to a driver had exactly one
\* of the flags GYRO, ACCELERO, MAGNETO as its Function, and the driver invoked
\* is the one bound for that flag.
C10_ForwardedIsSingleFlag ==
  (last.op \in FuncOps /\ last.calls # << >>)
    => /\ last.Function \in {MOTION_GYRO, MOTION_ACCELERO, MOTION_MAGNETO}
       /\ last.calls[1].drv = MotionFuncDrv[last.Instance][FunctionIndex(last.Function)]

====
